---- MODULE Spec2Model ----
(***************************************************************************)
(* A model of the software rendering pipeline of Proyecto3_graficas:       *)
(* the framebuffer with its depth test, the vertex shader, triangle        *)
(* assembly, the rasterizer, the fragment shaders and render_with_shader.  *)
(*                                                                         *)
(* Numbers.  The program computes in f32.  The model computes in exact     *)
(* extended rationals <<n, d>> (d >= 0, lowest terms): <<1, 0>> is +inf,   *)
(* <<-1, 0>> is -inf and <<0, 0>> is NaN, so that a division by zero       *)
(* gives what IEEE-754 gives.  Rounding and signed zeros are not modelled. *)
(***************************************************************************)
EXTENDS Integers, Sequences, FiniteSets, TLC

VARIABLES
    framebuffer,           \* the Framebuffer: width, height, buffer, zbuffer, colors
    uniforms,              \* the Uniforms of the draw call
    vertex_array,          \* the vertex list handed to render_with_shader
    shader_type,           \* the ShaderType of the draw call
    pc,                    \* position inside render_with_shader / the client
    i,                     \* the running loop index of the current stage
    transformed_vertices,  \* main.rs:110
    triangles,             \* main.rs:117
    fragments,             \* main.rs:129
    shaded_color,          \* main.rs:140, the Color of the fragment being written
    log,                   \* history: the point calls since the last clear
    before,                \* history: buffer and zbuffer before the last point call
    trace,                 \* history: counters of what each stage has done
    driver                 \* the locals of main: time, current_planet, camera, ...

vars == <<framebuffer, uniforms, vertex_array, shader_type, pc, i,
          transformed_vertices, triangles, fragments, shaded_color,
          log, before, trace, driver>>

----------------------------------------------------------------------------
(* f32 arithmetic as extended rationals *)

Abs(n) == IF n < 0 THEN -n ELSE n

Sign(n) == IF n < 0 THEN -1 ELSE IF n > 0 THEN 1 ELSE 0

RECURSIVE GCD(_, _)
GCD(a, b) == IF b = 0 THEN a ELSE GCD(b, a % b)

\* the greatest common divisor, or 1 when both numbers are 0
Divisor(a, b) == IF a = 0 /\ b = 0 THEN 1 ELSE GCD(Abs(a), Abs(b))

RNorm(n, d) ==
    IF d = 0 THEN <<Sign(n), 0>>
    ELSE LET g == GCD(Abs(n), Abs(d))
             s == IF d < 0 THEN -1 ELSE 1
         IN  <<(s * n) \div g, (s * d) \div g>>

R(n, d) == RNorm(n, d)

Num(n) == <<n, 1>>

NaN == <<0, 0>>

Inf == <<1, 0>>

IsNaN(a) == a = NaN

IsFinite(a) == a[2] # 0

RNeg(a) == <<-a[1], a[2]>>

RAdd(a, b) ==
    IF a[2] = 0 /\ b[2] = 0
    THEN (IF a = b THEN a ELSE NaN)
    ELSE LET g == Divisor(a[2], b[2])
         IN  RNorm(a[1] * (b[2] \div g) + b[1] * (a[2] \div g), (a[2] \div g) * b[2])

RSub(a, b) == RAdd(a, RNeg(b))

\* common factors are cancelled before the products are taken
RMul(a, b) ==
    LET g == Divisor(a[1], b[2])
        h == Divisor(b[1], a[2])
    IN  RNorm((a[1] \div g) * (b[1] \div h), (a[2] \div h) * (b[2] \div g))

RDiv(a, b) == RMul(a, RNorm(b[2], b[1]))

RLt(a, b) ==
    IF IsNaN(a) \/ IsNaN(b) THEN FALSE
    ELSE IF a[2] = 0 /\ b[2] = 0 THEN a[1] < b[1]
    ELSE a[1] * b[2] < b[1] * a[2]

RLe(a, b) ==
    IF IsNaN(a) \/ IsNaN(b) THEN FALSE
    ELSE a = b \/ RLt(a, b)

RGe(a, b) == RLe(b, a)

RGt(a, b) == RLt(b, a)

RMin(a, b) == IF RLt(b, a) THEN b ELSE a

RMax(a, b) == IF RLt(a, b) THEN b ELSE a

RFloor(a) == a[1] \div a[2]

RCeil(a) == -((-a[1]) \div a[2])

\* f32 as usize: saturating, NaN becomes 0, the fraction is dropped
AsUsize(a) ==
    IF IsNaN(a) \/ RLt(a, Num(0)) THEN 0
    ELSE IF ~IsFinite(a) THEN 2147483647
    ELSE RFloor(a)

----------------------------------------------------------------------------
(* Framebuffer (framebuffer.rs is not among the sources: modelled from the *)
(* specification and from the way main.rs uses it)                         *)

Framebuffer_new(width, height) ==
    [width            |-> width,
     height           |-> height,
     buffer           |-> [k \in 0 .. (width * height - 1) |-> 0],
     zbuffer          |-> [k \in 0 .. (width * height - 1) |-> Inf],
     background_color |-> 0,
     current_color    |-> 16777215]

set_background_color(fb, color) == [fb EXCEPT !.background_color = color]

clear(fb) ==
    [fb EXCEPT !.buffer  = [k \in DOMAIN fb.buffer |-> fb.background_color],
               !.zbuffer = [k \in DOMAIN fb.zbuffer |-> Inf]]

set_current_color(fb, color) == [fb EXCEPT !.current_color = color]

\* the buffer is handed to the window row by row (main.rs:332)
Index(fb, x, y) == y * fb.width + x

\* as point, but a failed depth test puts the background color back
point_erasing(fb, x, y, depth) ==
    LET k == Index(fb, x, y)
    IN  IF k \in DOMAIN fb.buffer /\ RLt(depth, fb.zbuffer[k])
        THEN [fb EXCEPT !.buffer[k] = fb.current_color, !.zbuffer[k] = depth]
        ELSE IF k \in DOMAIN fb.buffer
             THEN [fb EXCEPT !.buffer[k] = fb.background_color]
             ELSE fb

point(fb, x, y, depth) ==
    LET k == Index(fb, x, y)
    IN  IF k \in DOMAIN fb.buffer /\ RLt(depth, fb.zbuffer[k])
        THEN [fb EXCEPT !.buffer[k] = fb.current_color, !.zbuffer[k] = depth]
        ELSE fb

----------------------------------------------------------------------------
(* Vectors and matrices (nalgebra_glm): a vector is a tuple of numbers, a  *)
(* matrix a tuple of rows                                                  *)

Vec3(x, y, z) == <<x, y, z>>

Vec4(x, y, z, w) == <<x, y, z, w>>

IVec3(x, y, z) == <<Num(x), Num(y), Num(z)>>

\* the sum of the products of the first k components, left to right
RECURSIVE DotUpTo(_, _, _)
DotUpTo(a, b, k) ==
    IF k = 0 THEN Num(0) ELSE RAdd(DotUpTo(a, b, k - 1), RMul(a[k], b[k]))

Dot(a, b) == DotUpTo(a, b, Len(a))

\* 3x3 and 4x4 matrices and their vectors
MatVec(m, v) ==
    IF Len(m) = 3 THEN <<Dot(m[1], v), Dot(m[2], v), Dot(m[3], v)>>
    ELSE <<Dot(m[1], v), Dot(m[2], v), Dot(m[3], v), Dot(m[4], v)>>

Column(m, c) ==
    IF Len(m) = 3 THEN <<m[1][c], m[2][c], m[3][c]>>
    ELSE <<m[1][c], m[2][c], m[3][c], m[4][c]>>

Transpose(m) ==
    IF Len(m) = 3 THEN <<Column(m, 1), Column(m, 2), Column(m, 3)>>
    ELSE <<Column(m, 1), Column(m, 2), Column(m, 3), Column(m, 4)>>

MatMul(a, b) == LET bt == Transpose(b) IN Transpose(<<MatVec(a, bt[1]), MatVec(a, bt[2]),
                                                       MatVec(a, bt[3]), MatVec(a, bt[4])>>)

IRow(row) ==
    IF Len(row) = 3 THEN <<Num(row[1]), Num(row[2]), Num(row[3])>>
    ELSE <<Num(row[1]), Num(row[2]), Num(row[3]), Num(row[4])>>

IMat(rows) ==
    IF Len(rows) = 3 THEN <<IRow(rows[1]), IRow(rows[2]), IRow(rows[3])>>
    ELSE <<IRow(rows[1]), IRow(rows[2]), IRow(rows[3]), IRow(rows[4])>>

Identity3 == IMat(<<<<1, 0, 0>>, <<0, 1, 0>>, <<0, 0, 1>>>>)

Identity4 == IMat(<<<<1, 0, 0, 0>>, <<0, 1, 0, 0>>, <<0, 0, 1, 0>>, <<0, 0, 0, 1>>>>)

mat4_to_mat3(m) ==
    <<<<m[1][1], m[1][2], m[1][3]>>, <<m[2][1], m[2][2], m[2][3]>>,
      <<m[3][1], m[3][2], m[3][3]>>>>

Det2(a, b, c, d) == RSub(RMul(a, d), RMul(b, c))

\* the cofactor of entry (r, c) of a 3x3 matrix
Cofactor3(m, r, c) ==
    LET rs == IF r = 1 THEN <<2, 3>> ELSE IF r = 2 THEN <<1, 3>> ELSE <<1, 2>>
        cs == IF c = 1 THEN <<2, 3>> ELSE IF c = 2 THEN <<1, 3>> ELSE <<1, 2>>
        minor == Det2(m[rs[1]][cs[1]], m[rs[1]][cs[2]], m[rs[2]][cs[1]], m[rs[2]][cs[2]])
    IN  IF (r + c) % 2 = 0 THEN minor ELSE RNeg(minor)

Det3(m) == Dot(m[1], <<Cofactor3(m, 1, 1), Cofactor3(m, 1, 2), Cofactor3(m, 1, 3)>>)

\* Mat3::try_inverse().unwrap_or(fallback): None when the determinant is zero
try_inverse_or(m, fallback) ==
    LET det == Det3(m)
    IN  IF det = Num(0) \/ ~IsFinite(det) THEN fallback
        ELSE LET row(r) == <<RDiv(Cofactor3(m, 1, r), det), RDiv(Cofactor3(m, 2, r), det),
                             RDiv(Cofactor3(m, 3, r), det)>>
             IN  <<row(1), row(2), row(3)>>

----------------------------------------------------------------------------
(* The transform stage *)

\* translation and scale in one matrix times the rotation; the model takes
\* the rotation matrix itself where the program takes its three angles
create_model_matrix(translation, scale, rotation_matrix) ==
    LET transform_matrix ==
            <<<<scale, Num(0), Num(0), translation[1]>>,
              <<Num(0), scale, Num(0), translation[2]>>,
              <<Num(0), Num(0), scale, translation[3]>>,
              <<Num(0), Num(0), Num(0), Num(1)>>>>
    IN  MatMul(transform_matrix, rotation_matrix)

\* as create_viewport_matrix, but without the flip of the Y axis
create_viewport_matrix_unflipped(width, height) ==
    <<<<R(width, 2), Num(0), Num(0), R(width, 2)>>,
      <<Num(0), R(height, 2), Num(0), R(height, 2)>>,
      <<Num(0), Num(0), Num(1), Num(0)>>,
      <<Num(0), Num(0), Num(0), Num(1)>>>>

\* as create_viewport_matrix, but with depth mapped to [0, 1] as in OpenGL
create_viewport_matrix_halfdepth(width, height) ==
    <<<<R(width, 2), Num(0), Num(0), R(width, 2)>>,
      <<Num(0), R(-height, 2), Num(0), R(height, 2)>>,
      <<Num(0), Num(0), R(1, 2), R(1, 2)>>,
      <<Num(0), Num(0), Num(0), Num(1)>>>>

create_viewport_matrix(width, height) ==
    <<<<R(width, 2), Num(0), Num(0), R(width, 2)>>,
      <<Num(0), R(-height, 2), Num(0), R(height, 2)>>,
      <<Num(0), Num(0), Num(1), Num(0)>>,
      <<Num(0), Num(0), Num(0), Num(1)>>>>

Vertex_new(position, normal, tex_coords) ==
    [position             |-> position,
     normal               |-> normal,
     tex_coords           |-> tex_coords,
     transformed_position |-> position,
     transformed_normal   |-> normal]

\* shaders.rs:47-54: projection * view * model * (position, 1)
ClipPosition(vertex, u) ==
    LET position == Vec4(vertex.position[1], vertex.position[2], vertex.position[3], Num(1))
    IN  MatVec(MatMul(MatMul(u.projection_matrix, u.view_matrix), u.model_matrix), position)

\* shaders.rs:56-62: the division by w, made whatever w is
NdcPosition(transformed) ==
    LET w == transformed[4]
    IN  Vec4(RDiv(transformed[1], w), RDiv(transformed[2], w), RDiv(transformed[3], w), Num(1))

vertex_shader(vertex, u) ==
    LET transformed          == ClipPosition(vertex, u)
        transformed_position == NdcPosition(transformed)
        screen_position      == MatVec(u.viewport_matrix, transformed_position)
        model_mat3           == mat4_to_mat3(u.model_matrix)
        normal_matrix        == try_inverse_or(Transpose(model_mat3), Identity3)
        transformed_normal   == MatVec(normal_matrix, vertex.normal)
    IN  [position             |-> vertex.position,
         normal               |-> vertex.normal,
         tex_coords           |-> vertex.tex_coords,
         transformed_position |-> Vec3(screen_position[1], screen_position[2], screen_position[3]),
         transformed_normal   |-> transformed_normal]

----------------------------------------------------------------------------
(* The rasterizer (triangle.rs and fragment.rs are not among the sources:  *)
(* modelled from the specification, sections 3 and 4.3)                    *)

Fragment_new(x, y, vertex_position, depth, intensity) ==
    [position        |-> <<Num(x), Num(y)>>,
     vertex_position |-> vertex_position,
     depth           |-> depth,
     intensity       |-> intensity]

\* the fixed light direction of the Lambertian term
LightDir == IVec3(0, 0, 1)

\* twice the signed area of the triangle (a, b, p)
EdgeFunction(a, b, p) ==
    RSub(RMul(RSub(p[1], a[1]), RSub(b[2], a[2])),
         RMul(RSub(p[2], a[2]), RSub(b[1], a[1])))

\* the barycentric weights of p: signed-area ratios
Barycentric(p, a, b, c) ==
    LET area == EdgeFunction(a, b, c)
    IN  <<RDiv(EdgeFunction(b, c, p), area),
          RDiv(EdgeFunction(c, a, p), area),
          RDiv(EdgeFunction(a, b, p), area)>>

\* an attribute blended by the weights
Blend1(w, s0, s1, s2) == RAdd(RAdd(RMul(w[1], s0), RMul(w[2], s1)), RMul(w[3], s2))

Blend(w, p0, p1, p2) ==
    <<Blend1(w, p0[1], p1[1], p2[1]), Blend1(w, p0[2], p1[2], p2[2]),
      Blend1(w, p0[3], p1[3], p2[3])>>

RECURSIVE ISqrtFrom(_, _)
ISqrtFrom(n, r) == IF (r + 1) * (r + 1) > n THEN r ELSE ISqrtFrom(n, r + 1)

\* the square root of a number; exact when the number is a square
RSqrt(a) == R(ISqrtFrom(a[1] * a[2], 0), a[2])

Normalize(v) ==
    LET len == RSqrt(Dot(v, v))
    IN  <<RDiv(v[1], len), RDiv(v[2], len), RDiv(v[3], len)>>

Clamp01(a) == IF RLt(a, Num(0)) THEN Num(0) ELSE IF RGt(a, Num(1)) THEN Num(1) ELSE a

\* the center of pixel (x, y)
PixelCenter(x, y) == <<R(2 * x + 1, 2), R(2 * y + 1, 2)>>

Covered(w) == RGe(w[1], Num(0)) /\ RGe(w[2], Num(0)) /\ RGe(w[3], Num(0))

\* the pixels of the bounding box in scanline order, none with a negative
\* coordinate
BoundingBoxPixels(a, b, c) ==
    LET min_x == RFloor(RMin(a[1], RMin(b[1], c[1])))
        min_y == RFloor(RMin(a[2], RMin(b[2], c[2])))
        max_x == RFloor(RMax(a[1], RMax(b[1], c[1])))
        max_y == RFloor(RMax(a[2], RMax(b[2], c[2])))
        x0    == IF min_x < 0 THEN 0 ELSE min_x
        y0    == IF min_y < 0 THEN 0 ELSE min_y
        nx    == IF max_x < x0 THEN 0 ELSE max_x - x0 + 1
        ny    == IF max_y < y0 THEN 0 ELSE max_y - y0 + 1
    IN  [k \in 1 .. (nx * ny) |-> <<x0 + ((k - 1) % nx), y0 + ((k - 1) \div nx)>>]

MakeFragment(px, v0, v1, v2) ==
    LET w      == Barycentric(PixelCenter(px[1], px[2]), v0.transformed_position,
                              v1.transformed_position, v2.transformed_position)
        depth  == Blend1(w, v0.transformed_position[3], v1.transformed_position[3],
                         v2.transformed_position[3])
        normal == Normalize(Blend(w, v0.transformed_normal, v1.transformed_normal,
                                  v2.transformed_normal))
    IN  Fragment_new(px[1], px[2], Blend(w, v0.position, v1.position, v2.position),
                     depth, Clamp01(Dot(normal, LightDir)))

triangle(v0, v1, v2) ==
    LET a    == v0.transformed_position
        b    == v1.transformed_position
        c    == v2.transformed_position
        ok   == \A k \in 1 .. 3 : IsFinite(a[k]) /\ IsFinite(b[k]) /\ IsFinite(c[k])
        area == IF ok THEN EdgeFunction(a, b, c) ELSE NaN
    IN  IF ~ok \/ area = Num(0) THEN <<>>
        ELSE LET inside(px) == Covered(Barycentric(PixelCenter(px[1], px[2]), a, b, c))
                 pixels     == SelectSeq(BoundingBoxPixels(a, b, c), inside)
             IN  [k \in 1 .. Len(pixels) |-> MakeFragment(pixels[k], v0, v1, v2)]

----------------------------------------------------------------------------
(* Color (color.rs is not among the sources: modelled from the             *)
(* specification, section 3): three channels in 0 .. 255                   *)

Color_new(r, g, b) == <<r, g, b>>

\* a number as u8: saturating, the fraction dropped, NaN becomes 0
AsU8(a) ==
    IF IsNaN(a) \/ RLt(a, Num(0)) THEN 0
    ELSE IF RGt(a, Num(255)) THEN 255
    ELSE RFloor(a)

ColorMul(c, f) ==
    <<AsU8(RMul(Num(c[1]), f)), AsU8(RMul(Num(c[2]), f)), AsU8(RMul(Num(c[3]), f))>>

AddU8(a, b) == IF a + b > 255 THEN 255 ELSE a + b

ColorAdd(c, d) == <<AddU8(c[1], d[1]), AddU8(c[2], d[2]), AddU8(c[3], d[3])>>

lerp(c, other, t) ==
    LET tc     == Clamp01(t)
        ch(k)  == AsU8(RAdd(Num(c[k]), RMul(Num(other[k] - c[k]), tc)))
    IN  <<ch(1), ch(2), ch(3)>>

to_hex(c) == c[1] * 65536 + c[2] * 256 + c[3]

----------------------------------------------------------------------------
(* What the shaders take from outside the repository.  FastNoiseLite is a  *)
(* fixed function of its coordinates with values in [-1, 1]: u.noise holds *)
(* the value it takes on the lattice cells of even and of odd parity.  The *)
(* sine of a time other than 0 and the draw of StdRng are u.oracle.sin and *)
(* u.oracle.rnd.                                                           *)

get_noise_2d(noise, x, y) == noise[1 + ((RFloor(x) + RFloor(y)) % 2)]

get_noise_3d(noise, x, y, z) == noise[1 + ((RFloor(x) + RFloor(y) + RFloor(z)) % 2)]

Sin(u, a) == IF a = Num(0) THEN Num(0) ELSE u.oracle.sin

RAbs(a) == IF RLt(a, Num(0)) THEN RNeg(a) ELSE a

\* f32 literals
Lit(n, d) == R(n, d)

----------------------------------------------------------------------------
(* The shading stage (shaders.rs).  X_color is the color a variant has     *)
(* computed before its last statement, X_shader the variant.               *)

black_and_white_color(fragment, u) ==
    LET random_number == u.oracle.rnd
    IN  IF random_number < 50 THEN Color_new(0, 0, 0) ELSE Color_new(255, 255, 255)

black_and_white(fragment, u) ==
    ColorMul(black_and_white_color(fragment, u), fragment.intensity)

dalmata_color(fragment, u) ==
    LET zoom == Num(100)
        x    == fragment.vertex_position[1]
        y    == fragment.vertex_position[2]
        noise_value == get_noise_2d(u.noise, RMul(RAdd(x, Num(0)), zoom),
                                             RMul(RAdd(y, Num(0)), zoom))
    IN  IF RLt(noise_value, Lit(1, 2)) THEN Color_new(255, 255, 255) ELSE Color_new(0, 0, 0)

dalmata_shader(fragment, u) == ColorMul(dalmata_color(fragment, u), fragment.intensity)

cloud_color(fragment, u) ==
    LET zoom == Num(100)
        x    == fragment.vertex_position[1]
        y    == fragment.vertex_position[2]
        t    == RMul(Num(u.time), Lit(1, 2))
        noise_value == get_noise_2d(u.noise, RAdd(RAdd(RMul(x, zoom), Num(100)), t),
                                             RAdd(RMul(y, zoom), Num(100)))
    IN  IF RGt(noise_value, Lit(1, 2)) THEN Color_new(255, 255, 255) ELSE Color_new(30, 97, 145)

\* as cloud_shader, but without the multiplication by the intensity
cloud_shader_unlit(fragment, u) == cloud_color(fragment, u)

cloud_shader(fragment, u) == ColorMul(cloud_color(fragment, u), fragment.intensity)

cellular_color(fragment, u) ==
    LET zoom == Num(30)
        x    == fragment.vertex_position[1]
        y    == fragment.vertex_position[2]
        cell_noise_value == RAbs(get_noise_2d(u.noise, RAdd(RMul(x, zoom), Num(50)),
                                                       RAdd(RMul(y, zoom), Num(50))))
    IN  IF RLt(cell_noise_value, Lit(15, 100)) THEN Color_new(85, 107, 47)
        ELSE IF RLt(cell_noise_value, Lit(7, 10)) THEN Color_new(124, 252, 0)
        ELSE IF RLt(cell_noise_value, Lit(75, 100)) THEN Color_new(34, 139, 34)
        ELSE Color_new(173, 255, 47)

cellular_shader(fragment, u) == ColorMul(cellular_color(fragment, u), fragment.intensity)

lava_color(fragment, u) ==
    LET bright_color == Color_new(255, 240, 0)
        dark_color   == Color_new(130, 20, 0)
        position     == Vec3(fragment.vertex_position[1], fragment.vertex_position[2],
                             fragment.depth)
        t            == RMul(Num(u.time), Lit(1, 100))
        pulsate      == RMul(Sin(u, RMul(t, Lit(2, 10))), Lit(1, 2))
        zoom         == Num(1000)
        noise_value1 == get_noise_3d(u.noise, RMul(position[1], zoom), RMul(position[2], zoom),
                                     RMul(RAdd(position[3], pulsate), zoom))
        noise_value2 == get_noise_3d(u.noise, RMul(RAdd(position[1], Num(1000)), zoom),
                                     RMul(RAdd(position[2], Num(1000)), zoom),
                                     RMul(RAdd(RAdd(position[3], Num(1000)), pulsate), zoom))
        noise_value  == RMul(RAdd(noise_value1, noise_value2), Lit(1, 2))
    IN  lerp(dark_color, bright_color, noise_value)

lava_shader(fragment, u) == ColorMul(lava_color(fragment, u), fragment.intensity)

mercury_color(fragment, u) ==
    LET zoom  == Num(120)
        ox    == Num(15)
        oy    == Num(15)
        x     == fragment.vertex_position[1]
        y     == fragment.vertex_position[2]
        depth == fragment.depth
        noise_value1 == get_noise_3d(u.noise, RMul(RAdd(x, ox), zoom), RMul(RAdd(y, oy), zoom),
                                     RMul(depth, zoom))
        noise_value2 == get_noise_3d(u.noise, RMul(RAdd(RAdd(x, ox), Num(30)), zoom),
                                     RMul(RAdd(RAdd(y, oy), Num(30)), zoom),
                                     RMul(RAdd(depth, Num(30)), zoom))
        noise_value  == RMul(RAdd(noise_value1, noise_value2), Lit(1, 2))
    IN  IF RLt(noise_value, Lit(25, 100)) THEN Color_new(105, 105, 105)
        ELSE IF RLt(noise_value, Lit(7, 10)) THEN Color_new(169, 169, 169)
        ELSE Color_new(192, 192, 192)

mercury_shader(fragment, u) ==
    LET highlight_color == Color_new(192, 192, 192)
        light_intensity == RAdd(RMul(Sin(u, RMul(Num(u.time), Lit(5, 100))), Lit(1, 10)),
                                Lit(9, 10))
    IN  lerp(mercury_color(fragment, u), highlight_color,
             RMul(light_intensity, fragment.intensity))

cracked_earth_color(fragment, u) ==
    LET zoom == Num(80)
        x    == fragment.vertex_position[1]
        y    == fragment.vertex_position[2]
        crack_noise_value == RAbs(get_noise_2d(u.noise, RAdd(RMul(x, zoom), Num(50)),
                                                        RAdd(RMul(y, zoom), Num(50))))
        base_color  == IF RLt(crack_noise_value, Lit(2, 10)) THEN Color_new(0, 0, 255)
                       ELSE Color_new(34, 139, 34)
        cloud_zoom  == Num(100)
        t           == RMul(Num(u.time), Lit(1, 2))
        cloud_noise_value == get_noise_2d(u.noise,
                                 RAdd(RAdd(RMul(x, cloud_zoom), Num(100)), t),
                                 RAdd(RMul(y, cloud_zoom), Num(100)))
        cloud_color_ == Color_new(255, 255, 255)
    IN  IF RGt(cloud_noise_value, Lit(8, 10)) THEN lerp(cloud_color_, base_color, Lit(3, 10))
        ELSE base_color

cracked_earth_shader(fragment, u) ==
    ColorMul(cracked_earth_color(fragment, u), fragment.intensity)

water_color(fragment, u) ==
    LET zoom == Num(50)
        x    == fragment.vertex_position[1]
        y    == fragment.vertex_position[2]
        t    == RMul(Num(u.time), Lit(1, 2))
        wave_noise     == get_noise_2d(u.noise, RAdd(RAdd(RMul(x, zoom), Num(0)), t),
                                                RAdd(RAdd(RMul(y, zoom), Num(0)), t))
        wave_intensity == RMul(RAdd(RMul(wave_noise, Lit(1, 2)), Lit(1, 2)), fragment.intensity)
        shallow_color  == Color_new(64, 164, 223)
        deep_color     == Color_new(15, 82, 186)
        foam_color     == Color_new(255, 255, 255)
        base_color     == lerp(shallow_color, deep_color, wave_intensity)
    IN  IF RGt(wave_noise, Lit(8, 10)) THEN lerp(foam_color, base_color, Lit(3, 10))
        ELSE base_color

water_shader(fragment, u) ==
    LET t          == RMul(Num(u.time), Lit(1, 2))
        brightness == RMul(RAdd(RMul(Sin(u, t), Lit(1, 10)), Lit(9, 10)), fragment.intensity)
    IN  ColorMul(water_color(fragment, u), brightness)

crystal_color(fragment, u) ==
    LET zoom == Num(150)
        time == RMul(Num(u.time), Lit(1, 10))
        x    == fragment.vertex_position[1]
        y    == fragment.vertex_position[2]
        z    == fragment.depth
        noise_value     == get_noise_3d(u.noise, RMul(x, zoom), RMul(y, zoom),
                                        RAdd(RMul(z, zoom), time))
        base_color      == Color_new(135, 206, 235)
        highlight_color == Color_new(173, 216, 230)
        refracted_color == lerp(base_color, highlight_color, RMul(noise_value, Lit(1, 2)))
        sparkle_noise   == get_noise_2d(u.noise, RAdd(RMul(x, zoom), time),
                                        RAdd(RMul(y, zoom), time))
        sparkle_color   == IF RGt(sparkle_noise, Lit(8, 10))
                           THEN ColorMul(Color_new(255, 255, 255), Lit(15, 10))
                           ELSE Color_new(0, 0, 0)
    IN  ColorAdd(refracted_color, sparkle_color)

crystal_shader(fragment, u) == ColorMul(crystal_color(fragment, u), fragment.intensity)

arid_color(fragment, u) ==
    LET zoom == Num(100)
        x    == fragment.vertex_position[1]
        y    == fragment.vertex_position[2]
        crack_noise == RAbs(get_noise_2d(u.noise, RAdd(RMul(x, zoom), Num(50)),
                                                  RAdd(RMul(y, zoom), Num(50))))
    IN  IF RLt(crack_noise, Lit(2, 10)) THEN Color_new(117, 76, 36)
        ELSE Color_new(237, 201, 175)

arid_shader(fragment, u) ==
    LET highlight_color == Color_new(255, 223, 186)
        light_intensity == RAdd(RMul(Sin(u, RMul(Num(u.time), Lit(5, 100))), Lit(1, 10)),
                                Lit(9, 10))
    IN  lerp(arid_color(fragment, u), highlight_color,
             RMul(light_intensity, fragment.intensity))

ShaderType ==
    {"Mercury", "CrackedEarth", "BlackAndWhite", "Dalmata", "Cloud", "Cellular", "Lava",
     "water_shader", "crystal_shader", "arid_shader"}

apply_shader(fragment, u, st) ==
    CASE st = "Mercury"        -> mercury_shader(fragment, u)
      [] st = "CrackedEarth"   -> cracked_earth_shader(fragment, u)
      [] st = "BlackAndWhite"  -> black_and_white(fragment, u)
      [] st = "Dalmata"        -> dalmata_shader(fragment, u)
      [] st = "Cloud"          -> cloud_shader(fragment, u)
      [] st = "Cellular"       -> cellular_shader(fragment, u)
      [] st = "Lava"           -> lava_shader(fragment, u)
      [] st = "water_shader"   -> water_shader(fragment, u)
      [] st = "crystal_shader" -> crystal_shader(fragment, u)
      [] st = "arid_shader"    -> arid_shader(fragment, u)

----------------------------------------------------------------------------
(* render_with_shader (main.rs:103-146) as functions of its arguments *)

\* main.rs:110-114
TransformAll(va, u) == [k \in 1 .. Len(va) |-> vertex_shader(va[k], u)]

\* main.rs:118: the values of i in (0..len).step_by(3)
StepBy3(len) == {k \in 0 .. len : k < len /\ k % 3 = 0}

\* as AssembleAt, but the guard asks for one vertex more
AssembleAt_short(tv, k) ==
    IF k + 3 < Len(tv) THEN <<<<tv[k + 1], tv[k + 2], tv[k + 3]>>>> ELSE <<>>

\* main.rs:119-125: what one iteration at index k adds to triangles
AssembleAt(tv, k) ==
    IF k + 2 < Len(tv) THEN <<<<tv[k + 1], tv[k + 2], tv[k + 3]>>>> ELSE <<>>

RECURSIVE AssembleFrom(_, _)
AssembleFrom(tv, k) ==
    IF k \in StepBy3(Len(tv)) THEN AssembleAt(tv, k) \o AssembleFrom(tv, k + 3) ELSE <<>>

\* main.rs:130-132
RECURSIVE RasterizeAll(_)
RasterizeAll(tris) ==
    IF tris = <<>> THEN <<>>
    ELSE triangle(tris[1][1], tris[1][2], tris[1][3]) \o RasterizeAll(Tail(tris))

\* main.rs:136-137
FragX(fragment) == AsUsize(fragment.position[1])

FragY(fragment) == AsUsize(fragment.position[2])

\* as InBounds, but the comparisons admit the first column and row past the edge
InBounds_inclusive(fb, x, y) == x <= fb.width /\ y <= fb.height

\* main.rs:139
InBounds(fb, x, y) == x < fb.width /\ y < fb.height

\* as CompositeWrite, but the point is drawn before the color is set
CompositeWrite_stale(fb, x, y, depth, color) ==
    set_current_color(point(fb, x, y, depth), color)

\* main.rs:142-143, and 164-165, 372-373: the color is set, then the point is drawn
CompositeWrite(fb, x, y, depth, color) == point(set_current_color(fb, color), x, y, depth)

\* main.rs:136-144: one iteration of the composite loop
WriteFragment(fb, u, st, fragment) ==
    IF InBounds(fb, FragX(fragment), FragY(fragment))
    THEN CompositeWrite(fb, FragX(fragment), FragY(fragment), fragment.depth,
                        to_hex(apply_shader(fragment, u, st)))
    ELSE fb

\* main.rs:135-145
RECURSIVE RenderFragments(_, _, _, _)
RenderFragments(fb, u, st, frags) ==
    IF frags = <<>> THEN fb
    ELSE RenderFragments(WriteFragment(fb, u, st, frags[1]), u, st, Tail(frags))

render_with_shader(fb, u, va, st) ==
    RenderFragments(fb, u, st, RasterizeAll(AssembleFrom(TransformAll(va, u), 0)))

----------------------------------------------------------------------------
(* The inputs of the draw calls the model explores *)

\* how many triangles a generated vertex list holds at most
MaxTris == 2

\* how many vertices may follow the last whole triangle
MaxExtra == 2

\* how many point calls the framebuffer's client makes between two clears
MaxWrites == 3

\* the vertex whose screen position under create_viewport_matrix(w, h) is
\* (sx, sy) when projection, view and model are the identity
ScreenVertex(w, h, sx, sy, depth, normal) ==
    Vertex_new(Vec3(R(2 * sx - w, w), R(h - 2 * sy, h), depth), normal, <<Num(0), Num(0)>>)

ScreenTriangle(w, h, p0, p1, p2, normal) ==
    <<ScreenVertex(w, h, p0[1], p0[2], p0[3], normal),
      ScreenVertex(w, h, p1[1], p1[2], p1[3], normal),
      ScreenVertex(w, h, p2[1], p2[2], p2[3], normal)>>

Near == R(1, 5)

Mid == R(1, 2)

Far == R(4, 5)

Facing == IVec3(0, 0, 1)

Small == 4

\* screen-space corner triples for a Small x Small framebuffer
Corners ==
    [NearA    |-> <<<<0, 0, Near>>, <<4, 0, Near>>, <<0, 4, Near>>>>,
     FarA     |-> <<<<0, 0, Far>>, <<4, 0, Far>>, <<0, 4, Far>>>>,
     NearB    |-> <<<<1, 1, Near>>, <<4, 1, Near>>, <<1, 4, Near>>>>,
     FarB     |-> <<<<1, 1, Far>>, <<4, 1, Far>>, <<1, 4, Far>>>>,
     Slant    |-> <<<<0, 0, Near>>, <<4, 0, Far>>, <<0, 4, Far>>>>,
     OutRight |-> <<<<Small, 0, Near>>, <<Small + 3, 0, Near>>, <<Small, 3, Near>>>>,
     OutBelow |-> <<<<0, Small, Mid>>, <<3, Small, Mid>>, <<0, Small + 3, Mid>>>>,
     OutNeg   |-> <<<<-4, -4, Near>>, <<-1, -4, Near>>, <<-4, -1, Near>>>>,
     Straddle |-> <<<<-2, -2, Mid>>, <<3, -2, Mid>>, <<-2, 3, Mid>>>>,
     Tiny     |-> <<<<0, 0, Mid>>, <<2, 0, Mid>>, <<0, 2, Mid>>>>,
     AtEye    |-> <<<<0, 0, Num(0)>>, <<4, 0, Num(0)>>, <<0, 4, Num(0)>>>>]

\* three collinear vertices given in normalized device coordinates: the
\* top-left corner, the center and the bottom-right corner
Diagonal(normal) ==
    <<Vertex_new(Vec3(Num(-1), Num(1), Mid), normal, <<Num(0), Num(0)>>),
      Vertex_new(Vec3(Num(0), Num(0), Mid), normal, <<Num(0), Num(0)>>),
      Vertex_new(Vec3(Num(1), Num(-1), Mid), normal, <<Num(0), Num(0)>>)>>

Template(name, normal) ==
    IF name = "Diagonal" THEN Diagonal(normal)
    ELSE ScreenTriangle(Small, Small, Corners[name][1], Corners[name][2], Corners[name][3],
                        normal)

TemplateNames == {"NearA", "FarB", "OutRight", "OutNeg"}

OutsideNames == {"OutRight", "OutBelow", "OutNeg"}

RECURSIVE Flatten(_)
Flatten(ts) == IF ts = <<>> THEN <<>> ELSE ts[1] \o Flatten(Tail(ts))

NameLists(n) == UNION {[1 .. k -> TemplateNames] : k \in 0 .. n}

Tilted == Vec3(R(3, 5), Num(0), R(4, 5))

\* the far triangles are lit less than the near ones, so that the two shade
\* differently where they overlap
NormalOf(name, normal) == IF name \in {"FarA", "FarB"} THEN Tilted ELSE normal

VerticesOf(names, normal, extra) ==
    Flatten([k \in 1 .. Len(names) |-> Template(names[k], NormalOf(names[k], normal))])
        \o SubSeq(Template("NearA", normal) \o Template("NearA", normal), 1, extra)

NoiseFields ==
    {<<R(-1, 1), R(9, 10)>>, <<R(1, 10), R(1, 2)>>, <<R(1, 2), R(1, 2)>>}

Oracles == {[sin |-> Num(1), rnd |-> 0], [sin |-> Num(-1), rnd |-> 100]}

Times == {0, 40}

Normals == {Facing, IVec3(0, 0, -1), Vec3(R(3, 5), Num(0), R(4, 5))}

Backgrounds == {0, 1052688}

\* w = z and z' = 1: a perspective division by the vertex's own z
Persp == IMat(<<<<1, 0, 0, 0>>, <<0, 1, 0, 0>>, <<0, 0, 0, 1>>, <<0, 0, 1, 0>>>>)

ModelMatrices ==
    {Identity4,
     create_model_matrix(IVec3(0, 0, 0), Num(2), Identity4),
     create_model_matrix(IVec3(0, 0, 0), Num(0), Identity4),
     create_model_matrix(<<R(1, 2), Num(0), Num(0)>>, Num(1),
                         IMat(<<<<0, -1, 0, 0>>, <<1, 0, 0, 0>>, <<0, 0, 1, 0>>, <<0, 0, 0, 1>>>>))}

Scene(w, h, bg, va, model, proj, st, noise, oracle, time) ==
    [width |-> w, height |-> h, background |-> bg, vertices |-> va, model |-> model,
     projection |-> proj, shader |-> st, noise |-> noise, oracle |-> oracle, time |-> time]

PlainNoise == <<R(1, 10), R(1, 2)>>

PlainOracle == [sin |-> Num(1), rnd |-> 100]

\* every list of at most MaxTris triangles, with up to MaxExtra vertices after it
GeometryScenes ==
    {Scene(Small, Small, 0, VerticesOf(names, Facing, extra), Identity4, Identity4, st,
           PlainNoise, PlainOracle, 0) :
        names \in NameLists(MaxTris), extra \in 0 .. MaxExtra, st \in {"Cloud"}}

\* every shader variant, noise field, oracle, time and normal
ShadingScenes ==
    {Scene(Small, Small, 0, VerticesOf(<<"Tiny">>, n, 0), Identity4, Identity4,
           st, nf, o, t) :
        n \in Normals, st \in ShaderType, nf \in NoiseFields, o \in Oracles, t \in Times}

\* other model and projection matrices, among them a singular model matrix
\* and a projection that gives w = 0
MatrixScenes ==
    {Scene(Small, Small, 0, VerticesOf(names, Facing, 0), m, p, "Lava", PlainNoise,
           PlainOracle, 0) :
        names \in {<<"NearA">>, <<"Slant", "NearB">>, <<"Straddle", "OutBelow">>,
                   <<"AtEye">>, <<"Diagonal", "Tiny">>, <<"Slant", "OutNeg">>,
                   <<"Diagonal">>},
        m \in ModelMatrices, p \in {Identity4, Persp}}

\* the right triangle (10,10), (20,10), (10,20) at depth 0.5 in 32 x 32
RightTriangle ==
    ScreenTriangle(32, 32, <<10, 10, Mid>>, <<20, 10, Mid>>, <<10, 20, Mid>>, Facing)

RightTriangleScenes ==
    {Scene(32, 32, bg, RightTriangle, Identity4, Identity4, st, nf, PlainOracle, 0) :
        bg \in Backgrounds, st \in ShaderType, nf \in {PlainNoise, <<R(1, 2), R(1, 2)>>}}

Scenes == GeometryScenes \cup ShadingScenes \cup MatrixScenes \cup RightTriangleScenes

----------------------------------------------------------------------------
(* State *)

Cells(fb) == [buffer |-> fb.buffer, zbuffer |-> fb.zbuffer]

NoTrace(fb) ==
    [start |-> fb, clip |-> <<>>, ndc |-> <<>>, zero_w_divisions |-> 0,
     shaded |-> 0, points |-> 0]

\* the locals of main while no driver loop runs
NoDriver == [time |-> 0]

NoUniforms ==
    [model_matrix |-> Identity4, view_matrix |-> Identity4, projection_matrix |-> Identity4,
     viewport_matrix |-> Identity4, time |-> 0, noise |-> PlainNoise, oracle |-> PlainOracle]

\* main.rs:176, 188, 278 and 284-327: a cleared framebuffer with the current
\* color 0xFFDDDD, and the uniforms of one draw call
InitRender ==
    \E sc \in Scenes :
        /\ framebuffer =
               set_current_color(
                   clear(set_background_color(Framebuffer_new(sc.width, sc.height),
                                              sc.background)),
                   16768477)
        /\ uniforms = [model_matrix      |-> sc.model,
                       view_matrix       |-> Identity4,
                       projection_matrix |-> sc.projection,
                       viewport_matrix   |-> create_viewport_matrix(sc.width, sc.height),
                       time              |-> sc.time,
                       noise             |-> sc.noise,
                       oracle            |-> sc.oracle]
        /\ vertex_array = sc.vertices
        /\ shader_type = sc.shader
        /\ pc = "transform"
        /\ i = 0
        /\ transformed_vertices = <<>>
        /\ triangles = <<>>
        /\ fragments = <<>>
        /\ shaded_color = Color_new(0, 0, 0)
        /\ log = <<>>
        /\ before = Cells(framebuffer)
        /\ trace = NoTrace(framebuffer)
        /\ driver = NoDriver

----------------------------------------------------------------------------
(* render_with_shader, one loop iteration at a time *)

\* main.rs:111-114
TransformStep ==
    /\ pc = "transform"
    /\ i < Len(vertex_array)
    /\ LET vertex == vertex_array[i + 1]
           clip_  == ClipPosition(vertex, uniforms)
       IN  /\ transformed_vertices' = Append(transformed_vertices,
                                             vertex_shader(vertex, uniforms))
           /\ trace' = [trace EXCEPT
                           !.clip = Append(@, clip_),
                           !.ndc = Append(@, NdcPosition(clip_)),
                           !.zero_w_divisions = @ + (IF clip_[4] = Num(0) THEN 1 ELSE 0)]
    /\ i' = i + 1
    /\ UNCHANGED <<driver, framebuffer, uniforms, vertex_array, shader_type, pc, triangles,
                   fragments, shaded_color, log, before>>

\* as TransformDone, but the loop may be left after any vertex
TransformDone_early ==
    /\ pc = "transform"
    /\ i >= 1
    /\ pc' = "assemble"
    /\ i' = 0
    /\ UNCHANGED <<driver, framebuffer, uniforms, vertex_array, shader_type, transformed_vertices,
                   triangles, fragments, shaded_color, log, before, trace>>

TransformDone ==
    /\ pc = "transform"
    /\ i = Len(vertex_array)
    /\ pc' = "assemble"
    /\ i' = 0
    /\ UNCHANGED <<driver, framebuffer, uniforms, vertex_array, shader_type, transformed_vertices,
                   triangles, fragments, shaded_color, log, before, trace>>

\* main.rs:118-126
AssembleStep ==
    /\ pc = "assemble"
    /\ i \in StepBy3(Len(transformed_vertices))
    /\ triangles' = triangles \o AssembleAt(transformed_vertices, i)
    /\ i' = i + 3
    /\ UNCHANGED <<driver, framebuffer, uniforms, vertex_array, shader_type, pc,
                   transformed_vertices, fragments, shaded_color, log, before, trace>>

AssembleDone ==
    /\ pc = "assemble"
    /\ i \notin StepBy3(Len(transformed_vertices))
    /\ pc' = "rasterize"
    /\ i' = 0
    /\ UNCHANGED <<driver, framebuffer, uniforms, vertex_array, shader_type, transformed_vertices,
                   triangles, fragments, shaded_color, log, before, trace>>

\* as RasterizeStep, but a triangle without fragments ends the loop
RasterizeStep_stops ==
    /\ pc = "rasterize"
    /\ i < Len(triangles)
    /\ LET tri   == triangles[i + 1]
           frags == triangle(tri[1], tri[2], tri[3])
       IN  /\ fragments' = fragments \o frags
           /\ i' = IF frags = <<>> THEN Len(triangles) ELSE i + 1
    /\ UNCHANGED <<driver, framebuffer, uniforms, vertex_array, shader_type, pc,
                   transformed_vertices, triangles, shaded_color, log, before, trace>>

\* as RasterizeStep, but the first vertex is passed twice
RasterizeStep_repeated ==
    /\ pc = "rasterize"
    /\ i < Len(triangles)
    /\ LET tri == triangles[i + 1]
       IN  fragments' = fragments \o triangle(tri[1], tri[1], tri[3])
    /\ i' = i + 1
    /\ UNCHANGED <<driver, framebuffer, uniforms, vertex_array, shader_type, pc,
                   transformed_vertices, triangles, shaded_color, log, before, trace>>

\* main.rs:130-132
RasterizeStep ==
    /\ pc = "rasterize"
    /\ i < Len(triangles)
    /\ LET tri == triangles[i + 1]
       IN  fragments' = fragments \o triangle(tri[1], tri[2], tri[3])
    /\ i' = i + 1
    /\ UNCHANGED <<driver, framebuffer, uniforms, vertex_array, shader_type, pc,
                   transformed_vertices, triangles, shaded_color, log, before, trace>>

RasterizeDone ==
    /\ pc = "rasterize"
    /\ i = Len(triangles)
    /\ pc' = "composite"
    /\ i' = 0
    /\ UNCHANGED <<driver, framebuffer, uniforms, vertex_array, shader_type, transformed_vertices,
                   triangles, fragments, shaded_color, log, before, trace>>

\* main.rs:136-139, the bounds check fails
BoundsReject ==
    /\ pc = "composite"
    /\ i < Len(fragments)
    /\ ~InBounds(framebuffer, FragX(fragments[i + 1]), FragY(fragments[i + 1]))
    /\ i' = i + 1
    /\ UNCHANGED <<driver, framebuffer, uniforms, vertex_array, shader_type, pc,
                   transformed_vertices, triangles, fragments, shaded_color, log, before,
                   trace>>

\* main.rs:136-140
Shade ==
    /\ pc = "composite"
    /\ i < Len(fragments)
    /\ InBounds(framebuffer, FragX(fragments[i + 1]), FragY(fragments[i + 1]))
    /\ shaded_color' = apply_shader(fragments[i + 1], uniforms, shader_type)
    /\ trace' = [trace EXCEPT !.shaded = @ + 1]
    /\ pc' = "write"
    /\ UNCHANGED <<driver, framebuffer, uniforms, vertex_array, shader_type, i,
                   transformed_vertices, triangles, fragments, log, before>>

\* main.rs:141-143
Write ==
    /\ pc = "write"
    /\ LET fragment == fragments[i + 1]
           color    == to_hex(shaded_color)
       IN  /\ framebuffer' = CompositeWrite(framebuffer, FragX(fragment), FragY(fragment),
                                            fragment.depth, color)
           /\ log' = Append(log, [x |-> FragX(fragment), y |-> FragY(fragment),
                                  depth |-> fragment.depth, color |-> color])
    /\ before' = Cells(framebuffer)
    /\ trace' = [trace EXCEPT !.points = @ + 1]
    /\ i' = i + 1
    /\ pc' = "composite"
    /\ UNCHANGED <<driver, uniforms, vertex_array, shader_type, transformed_vertices, triangles,
                   fragments, shaded_color>>

CompositeDone ==
    /\ pc = "composite"
    /\ i = Len(fragments)
    /\ pc' = "done"
    /\ UNCHANGED <<driver, framebuffer, uniforms, vertex_array, shader_type, i,
                   transformed_vertices, triangles, fragments, shaded_color, log, before,
                   trace>>

NextRender ==
    \/ TransformStep
    \/ TransformDone
    \/ AssembleStep
    \/ AssembleDone
    \/ RasterizeStep
    \/ RasterizeDone
    \/ BoundsReject
    \/ Shade
    \/ Write
    \/ CompositeDone

SpecRender == InitRender /\ [][NextRender]_vars

----------------------------------------------------------------------------
(* A client of the framebuffer: clear, and the pair set_current_color,     *)
(* point that draw_stars (main.rs:164-165), render_orbit_line              *)
(* (main.rs:372-373) and render_with_shader (main.rs:142-143) make, at any *)
(* pixel inside the bounds, with any depth and color                       *)

ClientDims == {<<2, 1>>, <<1, 2>>}

ClientDepths == {Near, Far}

ClientColors == {16777215, 13421772}

InitFB ==
    \E dims \in ClientDims, bg \in Backgrounds :
        /\ framebuffer = clear(set_background_color(Framebuffer_new(dims[1], dims[2]), bg))
        /\ uniforms = NoUniforms
        /\ vertex_array = <<>>
        /\ shader_type = "Lava"
        /\ pc = "client"
        /\ i = 0
        /\ transformed_vertices = <<>>
        /\ triangles = <<>>
        /\ fragments = <<>>
        /\ shaded_color = Color_new(0, 0, 0)
        /\ log = <<>>
        /\ before = Cells(framebuffer)
        /\ trace = NoTrace(framebuffer)
        /\ driver = NoDriver

\* main.rs:278
ClientClear ==
    /\ pc = "client"
    /\ framebuffer' = clear(framebuffer)
    /\ log' = <<>>
    /\ before' = Cells(framebuffer)
    /\ UNCHANGED <<driver, uniforms, vertex_array, shader_type, pc, i, transformed_vertices,
                   triangles, fragments, shaded_color, trace>>

ClientWrite ==
    /\ pc = "client"
    /\ Len(log) < MaxWrites
    /\ \E x \in 0 .. framebuffer.width - 1, y \in 0 .. framebuffer.height - 1,
          depth \in ClientDepths, color \in ClientColors :
            /\ framebuffer' = CompositeWrite(framebuffer, x, y, depth, color)
            /\ log' = Append(log, [x |-> x, y |-> y, depth |-> depth, color |-> color])
    /\ before' = Cells(framebuffer)
    /\ UNCHANGED <<driver, uniforms, vertex_array, shader_type, pc, i, transformed_vertices,
                   triangles, fragments, shaded_color, trace>>

NextFB == ClientClear \/ ClientWrite

SpecFB == InitFB /\ [][NextFB]_vars

----------------------------------------------------------------------------
(* The driver loop of main (main.rs:169-337): its operators                *)

\* how many frames the loop runs at most
MaxFrames == 2

\* how many points of an orbit are drawn (SEGMENTS, 360 in the program)
OrbitSamples == 4

Sub3(a, b) == <<RSub(a[1], b[1]), RSub(a[2], b[2]), RSub(a[3], b[3])>>

Add3(a, b) == <<RAdd(a[1], b[1]), RAdd(a[2], b[2]), RAdd(a[3], b[3])>>

Scale3(a, f) == <<RMul(a[1], f), RMul(a[2], f), RMul(a[3], f)>>

Cross(a, b) ==
    <<RSub(RMul(a[2], b[3]), RMul(a[3], b[2])),
      RSub(RMul(a[3], b[1]), RMul(a[1], b[3])),
      RSub(RMul(a[1], b[2]), RMul(a[2], b[1]))>>

\* cosine and sine of the angles the program reaches, as points of the unit
\* circle with rational coordinates
CirclePoints ==
    <<<<Num(1), Num(0)>>, <<Num(0), Num(1)>>, <<R(3, 5), R(4, 5)>>, <<Num(0), Num(-1)>>,
      <<R(4, 5), R(-3, 5)>>, <<Num(-1), Num(0)>>>>

Circle(k) == CirclePoints[(k % Len(CirclePoints)) + 1]

\* the view matrix of the axes s (right), u (up) and f (forward) at eye
ViewOf(s, u, f, eye) ==
    <<<<s[1], s[2], s[3], RNeg(Dot(s, eye))>>,
      <<u[1], u[2], u[3], RNeg(Dot(u, eye))>>,
      <<RNeg(f[1]), RNeg(f[2]), RNeg(f[3]), Dot(f, eye)>>,
      <<Num(0), Num(0), Num(0), Num(1)>>>>

ViewAlong(f, s, eye) == ViewOf(s, Cross(s, f), f, eye)

ViewToward(f, eye, up) == ViewAlong(f, Normalize(Cross(f, up)), eye)

\* main.rs:81-83, look_at: a right-handed view matrix
create_view_matrix(eye, center, up) == ViewToward(Normalize(Sub3(center, eye)), eye, up)

\* main.rs:85-92, perspective(fov, aspect, near, far): the cotangent of half
\* the field of view is taken as 2, and far as unbounded
create_perspective_matrix(window_width, window_height) ==
    LET f      == Num(2)
        aspect == R(window_width, window_height)
        near   == R(1, 10)
    IN  <<<<RDiv(f, aspect), Num(0), Num(0), Num(0)>>,
          <<Num(0), f, Num(0), Num(0)>>,
          <<Num(0), Num(0), Num(-1), RMul(Num(-2), near)>>,
          <<Num(0), Num(0), Num(-1), Num(0)>>>>

\* main.rs:52-57, rotation_matrix_y, from the cosine and sine of the angle
RotationY(angle) ==
    <<<<angle[1], Num(0), angle[2], Num(0)>>,
      <<Num(0), Num(1), Num(0), Num(0)>>,
      <<RNeg(angle[2]), Num(0), angle[1], Num(0)>>,
      <<Num(0), Num(0), Num(0), Num(1)>>>>

\* main.rs:320: the planets turn about the Y axis with time; the turn of a
\* frame is either none or the angle with cosine 4/5
Spin(time) == IF time % 2 = 1 THEN <<Num(1), Num(0)>> ELSE <<R(4, 5), R(3, 5)>>

\* main.rs:208-215: the shader of each body, the central one first
spheres == <<"Lava", "arid_shader", "CrackedEarth", "Dalmata", "crystal_shader", "water_shader">>

\* main.rs:247 and 293: base_distance + (index - 1) * distance_increment
OrbitRadius(index) == Num(5 + (index - 1) * 5)

\* main.rs:243-254: the position of body index (from 0) at a time
PlanetPosition(time, index) ==
    IF index = 0 THEN IVec3(0, 0, 0)
    ELSE LET radius == OrbitRadius(index)
             angle  == Circle(time + index)
         IN  Vec3(RMul(radius, angle[1]), Num(0), RMul(radius, angle[2]))

planet_positions(time) ==
    <<PlanetPosition(time, 0), PlanetPosition(time, 1), PlanetPosition(time, 2),
      PlanetPosition(time, 3), PlanetPosition(time, 4), PlanetPosition(time, 5)>>

\* as SelectPlanet, but Key5 is tested first and Key1 last
SelectPlanet_reversed(keys, current_planet) ==
    IF "Key5" \in keys /\ Len(spheres) > 5 THEN 5
    ELSE IF "Key4" \in keys /\ Len(spheres) > 4 THEN 4
    ELSE IF "Key3" \in keys /\ Len(spheres) > 3 THEN 3
    ELSE IF "Key2" \in keys /\ Len(spheres) > 2 THEN 2
    ELSE IF "Key1" \in keys THEN 1
    ELSE current_planet

\* main.rs:257-267
SelectPlanet(keys, current_planet) ==
    IF "Key1" \in keys THEN 1
    ELSE IF "Key2" \in keys /\ Len(spheres) > 2 THEN 2
    ELSE IF "Key3" \in keys /\ Len(spheres) > 3 THEN 3
    ELSE IF "Key4" \in keys /\ Len(spheres) > 4 THEN 4
    ELSE IF "Key5" \in keys /\ Len(spheres) > 5 THEN 5
    ELSE current_planet

Camera_new(eye, center, up) == [eye |-> eye, center |-> center, up |-> up]

\* main.rs:270-273: the camera follows the planet, its offset kept
Follow(camera, planet_position) ==
    LET camera_offset == Sub3(camera.eye, camera.center)
    IN  [camera EXCEPT !.center = planet_position,
                       !.eye = Add3(planet_position, camera_offset)]

\* Camera::zoom: the eye moves along the line to the center, by delta
Camera_zoom(camera, delta) ==
    LET direction == Normalize(Sub3(camera.center, camera.eye))
    IN  [camera EXCEPT !.eye = Add3(camera.eye, Scale3(direction, RNeg(delta)))]

\* main.rs:402-427, with none of the orbit keys pressed
handle_camera_input(keys, camera) ==
    LET zoom_speed == R(1, 2)
        c1 == IF "W" \in keys THEN Camera_zoom(camera, RNeg(zoom_speed)) ELSE camera
    IN  IF "S" \in keys THEN Camera_zoom(c1, zoom_speed) ELSE c1

\* main.rs:362-366 and 389-391: the division by w, not guarded here
PerspectiveDivide(clip_space_pos) ==
    Vec3(RDiv(clip_space_pos[1], clip_space_pos[4]),
         RDiv(clip_space_pos[2], clip_space_pos[4]),
         RDiv(clip_space_pos[3], clip_space_pos[4]))

\* main.rs:394-396
InsideNdc(ndc) ==
    /\ RGe(ndc[1], Num(-1)) /\ RLe(ndc[1], Num(1))
    /\ RGe(ndc[2], Num(-1)) /\ RLe(ndc[2], Num(1))
    /\ RGe(ndc[3], Num(0)) /\ RLe(ndc[3], Num(1))

\* main.rs:382-398
is_in_frustum(position, view_matrix, projection_matrix) ==
    InsideNdc(PerspectiveDivide(
        MatVec(MatMul(projection_matrix, view_matrix),
               Vec4(position[1], position[2], position[3], Num(1)))))

\* main.rs:309-312: another body than the followed one, too near the eye
TooClose(camera, position, index, current_planet) ==
    LET planet_radius        == Num(1)
        disappearance_buffer == Num(2)
        d     == Sub3(camera.eye, position)
        limit == RAdd(planet_radius, disappearance_buffer)
    IN  index # current_planet /\ RLe(Dot(d, d), RMul(limit, limit))

\* the set_current_color and point pairs of a list of writes, in order
RECURSIVE DrawAll(_, _)
DrawAll(fb, writes) ==
    IF writes = <<>> THEN fb
    ELSE DrawAll(CompositeWrite(fb, writes[1].x, writes[1].y, writes[1].depth,
                                writes[1].color),
                 Tail(writes))

\* main.rs:163-166: every star is white, at depth 1.0
RECURSIVE StarWrites(_)
StarWrites(stars) ==
    IF stars = <<>> THEN <<>>
    ELSE <<[x |-> stars[1][1], y |-> stars[1][2], depth |-> Num(1), color |-> 16777215]>>
             \o StarWrites(Tail(stars))

\* main.rs:162-167
draw_stars(fb, stars) == DrawAll(fb, StarWrites(stars))

\* main.rs:371-374: the write at a screen position inside the bounds
OrbitPoint(fb, screen_x, screen_y, depth) ==
    IF InBounds(fb, screen_x, screen_y)
    THEN <<[x |-> screen_x, y |-> screen_y, depth |-> depth, color |-> 13421772]>>
    ELSE <<>>

\* main.rs:368-374
OrbitScreen(fb, ndc) ==
    OrbitPoint(fb,
               AsUsize(RMul(RMul(RAdd(ndc[1], Num(1)), R(1, 2)), Num(fb.width))),
               AsUsize(RMul(RMul(RSub(Num(1), ndc[2]), R(1, 2)), Num(fb.height))),
               ndc[3])

\* main.rs:361-375: no write when w is 0
OrbitClip(fb, clip_space_pos) ==
    IF clip_space_pos[4] # Num(0)
    THEN OrbitScreen(fb, PerspectiveDivide(clip_space_pos))
    ELSE <<>>

OrbitPosition(radius, angle) ==
    Vec4(RMul(radius, angle[1]), Num(0), RMul(radius, angle[2]), Num(1))

\* main.rs:351-375: the write of segment s, if it makes one
OrbitWrite(fb, radius, view_matrix, projection_matrix, s) ==
    OrbitClip(fb, MatVec(MatMul(projection_matrix, view_matrix),
                         OrbitPosition(radius, Circle(s))))

\* main.rs:350-376: the writes of the segments s, s + 1, ...
RECURSIVE OrbitWrites(_, _, _, _, _)
OrbitWrites(fb, radius, view_matrix, projection_matrix, s) ==
    IF s >= OrbitSamples THEN <<>>
    ELSE OrbitWrite(fb, radius, view_matrix, projection_matrix, s)
             \o OrbitWrites(fb, radius, view_matrix, projection_matrix, s + 1)

\* main.rs:340-377
render_orbit_line(fb, radius, view_matrix, projection_matrix, viewport_matrix) ==
    DrawAll(fb, OrbitWrites(fb, radius, view_matrix, projection_matrix, 0))

\* the mesh of Sphere.obj, cut down to one triangle around the origin
SphereMesh ==
    <<Vertex_new(IVec3(-4, -4, 0), Facing, <<Num(0), Num(0)>>),
      Vertex_new(IVec3(4, -4, 0), Facing, <<Num(0), Num(0)>>),
      Vertex_new(IVec3(-4, 4, 0), Facing, <<Num(0), Num(0)>>)>>

\* the keys that are down when a frame polls them
KeySets ==
    {{}, {"Key1"}, {"Key2"}, {"Key3"}, {"Key4"}, {"Key5"}, {"Key1", "Key5"},
     {"Key2", "Key3"}, {"Key4", "Key5"}, {"Key3", "Key5"}, {"W"}, {"S", "Key2"},
     {"Escape"}, {"Escape", "Key3"}}

\* main.rs:191: the stars, anywhere inside the framebuffer
StarFields == {<<<<0, 0>>, <<Small - 1, 1>>, <<2, 2>>, <<1, 2>>, <<2, 2>>>>}

----------------------------------------------------------------------------
(* The driver loop of main, one step at a time; render_with_shader runs   *)
(* between PlanetBegin and PlanetEnd by the actions above                  *)

\* main.rs:169-233: the state when the loop is first entered
InitMain ==
    \E stars \in StarFields :
        /\ framebuffer = set_background_color(Framebuffer_new(Small, Small), 0)
        /\ uniforms = NoUniforms
        /\ vertex_array = <<>>
        /\ shader_type = "Lava"
        /\ pc = "loop"
        /\ i = 0
        /\ transformed_vertices = <<>>
        /\ triangles = <<>>
        /\ fragments = <<>>
        /\ shaded_color = Color_new(0, 0, 0)
        /\ log = <<>>
        /\ before = Cells(framebuffer)
        /\ trace = NoTrace(framebuffer)
        /\ driver = [time              |-> 0,
                     current_planet    |-> 1,
                     camera            |-> Camera_new(IVec3(5, 0, 10), IVec3(5, 0, 0),
                                                      IVec3(0, 1, 0)),
                     planet_positions  |-> planet_positions(0),
                     stars             |-> stars,
                     keys              |-> {},
                     is_open           |-> TRUE,
                     view_matrix       |-> Identity4,
                     projection_matrix |-> Identity4,
                     viewport_matrix   |-> Identity4,
                     index             |-> 0,
                     events            |-> <<>>,
                     frames            |-> 0,
                     shown             |-> Cells(framebuffer),
                     entry             |-> [time |-> 0, current_planet |-> 1,
                                            offset |-> IVec3(0, 0, 10)]]

renderLocals ==
    <<uniforms, vertex_array, shader_type, i, transformed_vertices, triangles, fragments,
      shaded_color, trace>>

\* main.rs:235-238: the window is closed, or Escape is down
Exit ==
    /\ pc = "loop"
    /\ \E keys \in KeySets, is_open \in BOOLEAN :
           /\ ~is_open \/ "Escape" \in keys
           /\ driver' = [driver EXCEPT !.keys = keys, !.is_open = is_open]
    /\ pc' = "exited"
    /\ UNCHANGED <<framebuffer, log, before, renderLocals>>

\* main.rs:235-273: the clock, the positions, the choice of planet and the
\* camera that follows it
FrameBegin ==
    /\ pc = "loop"
    /\ driver.time < MaxFrames
    /\ \E keys \in KeySets :
           /\ "Escape" \notin keys
           /\ LET time      == driver.time + 1
                  positions == planet_positions(time)
                  current   == SelectPlanet(keys, driver.current_planet)
              IN  driver' = [driver EXCEPT
                                !.time = time,
                                !.planet_positions = positions,
                                !.current_planet = current,
                                !.camera = Follow(driver.camera, positions[current + 1]),
                                !.keys = keys,
                                !.events = <<>>,
                                !.entry = [time           |-> driver.time,
                                           current_planet |-> driver.current_planet,
                                           offset         |-> Sub3(driver.camera.eye,
                                                                   driver.camera.center)]]
    /\ pc' = "camera"
    /\ UNCHANGED <<framebuffer, log, before, renderLocals>>

\* as CameraAndClear, but the framebuffer is not cleared
CameraAndClear_kept ==
    /\ pc = "camera"
    /\ driver' = [driver EXCEPT !.camera = handle_camera_input(driver.keys, @),
                                !.events = Append(@, "clear")]
    /\ log' = <<>>
    /\ pc' = "stars"
    /\ UNCHANGED <<framebuffer, before, renderLocals>>

\* main.rs:276-278
CameraAndClear ==
    /\ pc = "camera"
    /\ driver' = [driver EXCEPT !.camera = handle_camera_input(driver.keys, @),
                                !.events = Append(@, "clear")]
    /\ framebuffer' = clear(framebuffer)
    /\ log' = <<>>
    /\ before' = Cells(framebuffer)
    /\ pc' = "stars"
    /\ UNCHANGED renderLocals

\* the history of a list of writes: the log, and the cells before the last
Logged(writes) ==
    /\ log' = log \o writes
    /\ before' = IF writes = <<>> THEN before
                 ELSE Cells(DrawAll(framebuffer, SubSeq(writes, 1, Len(writes) - 1)))

\* main.rs:281-286: the stars, then the matrices of the frame
DrawStars ==
    /\ pc = "stars"
    /\ framebuffer' = draw_stars(framebuffer, driver.stars)
    /\ Logged(StarWrites(driver.stars))
    /\ driver' = [driver EXCEPT
                     !.view_matrix = create_view_matrix(driver.camera.eye,
                                                        driver.camera.center,
                                                        driver.camera.up),
                     !.projection_matrix =
                         create_perspective_matrix(framebuffer.width, framebuffer.height),
                     !.viewport_matrix =
                         create_viewport_matrix(framebuffer.width, framebuffer.height),
                     !.index = 1,
                     !.events = Append(@, "stars")]
    /\ pc' = "orbits"
    /\ UNCHANGED renderLocals

\* main.rs:289-298: the orbit of one planet
OrbitLine ==
    /\ pc = "orbits"
    /\ driver.index < Len(driver.planet_positions)
    /\ framebuffer' = render_orbit_line(framebuffer, OrbitRadius(driver.index),
                                        driver.view_matrix, driver.projection_matrix,
                                        driver.viewport_matrix)
    /\ Logged(OrbitWrites(framebuffer, OrbitRadius(driver.index), driver.view_matrix,
                          driver.projection_matrix, 0))
    /\ driver' = [driver EXCEPT !.index = @ + 1, !.events = Append(@, "orbit")]
    /\ UNCHANGED <<pc, renderLocals>>

OrbitsDone ==
    /\ pc = "orbits"
    /\ driver.index = Len(driver.planet_positions)
    /\ driver' = [driver EXCEPT !.index = 0]
    /\ pc' = "planets"
    /\ UNCHANGED <<framebuffer, log, before, renderLocals>>

\* main.rs:304 and 309: is the body left out of the frame?
Skipped(index) ==
    LET position == driver.planet_positions[index + 1]
    IN  \/ ~is_in_frustum(position, driver.view_matrix, driver.projection_matrix)
        \/ TooClose(driver.camera, position, index, driver.current_planet)

\* main.rs:301-313: a body outside the frustum, or too near the camera
PlanetSkip ==
    /\ pc = "planets"
    /\ driver.index < Len(driver.planet_positions)
    /\ Skipped(driver.index)
    /\ driver' = [driver EXCEPT !.index = @ + 1, !.events = Append(@, "skip")]
    /\ UNCHANGED <<pc, framebuffer, log, before, renderLocals>>

\* main.rs:301-328: the uniforms of a body, and the call of render_with_shader
PlanetBegin ==
    /\ pc = "planets"
    /\ driver.index < Len(driver.planet_positions)
    /\ ~Skipped(driver.index)
    /\ uniforms' = [model_matrix      |-> create_model_matrix(
                                              driver.planet_positions[driver.index + 1],
                                              Num(1), RotationY(Spin(driver.time))),
                    view_matrix       |-> driver.view_matrix,
                    projection_matrix |-> driver.projection_matrix,
                    viewport_matrix   |-> driver.viewport_matrix,
                    time              |-> driver.time,
                    noise             |-> PlainNoise,
                    oracle            |-> PlainOracle]
    /\ framebuffer' = set_current_color(framebuffer, 16768477)
    /\ vertex_array' = SphereMesh
    /\ shader_type' = spheres[driver.index + 1]
    /\ pc' = "transform"
    /\ i' = 0
    /\ transformed_vertices' = <<>>
    /\ triangles' = <<>>
    /\ fragments' = <<>>
    /\ trace' = NoTrace(framebuffer')
    /\ driver' = [driver EXCEPT !.events = Append(@, "planet")]
    /\ UNCHANGED <<shaded_color, log, before>>

\* main.rs:328: render_with_shader returns
PlanetEnd ==
    /\ pc = "done"
    /\ driver' = [driver EXCEPT !.index = @ + 1]
    /\ pc' = "planets"
    /\ UNCHANGED <<framebuffer, log, before, renderLocals>>

\* as Present, but the planet loop may be left after any body
Present_early ==
    /\ pc = "planets"
    /\ driver' = [driver EXCEPT !.events = Append(@, "present"),
                                !.frames = @ + 1,
                                !.shown = Cells(framebuffer)]
    /\ pc' = "loop"
    /\ UNCHANGED <<framebuffer, log, before, renderLocals>>

\* main.rs:331-335: update_with_buffer
Present ==
    /\ pc = "planets"
    /\ driver.index = Len(driver.planet_positions)
    /\ driver' = [driver EXCEPT !.events = Append(@, "present"),
                                !.frames = @ + 1,
                                !.shown = Cells(framebuffer)]
    /\ pc' = "loop"
    /\ UNCHANGED <<framebuffer, log, before, renderLocals>>

NextMain ==
    \/ Exit
    \/ FrameBegin
    \/ CameraAndClear
    \/ DrawStars
    \/ OrbitLine
    \/ OrbitsDone
    \/ PlanetSkip
    \/ PlanetBegin
    \/ TransformStep
    \/ TransformDone
    \/ AssembleStep
    \/ AssembleDone
    \/ RasterizeStep
    \/ RasterizeDone
    \/ BoundsReject
    \/ Shade
    \/ Write
    \/ CompositeDone
    \/ PlanetEnd
    \/ Present

SpecMain == InitMain /\ [][NextMain]_vars

----------------------------------------------------------------------------
(* Properties of the depth test                                            *)

\* the pixel a logged write went to
PixelOf(e) == Index(framebuffer, e.x, e.y)

WritesTo(k) == {j \in DOMAIN log : PixelOf(log[j]) = k}

\* C1: when exactly two writes reach one pixel, with depths d1 < d2, the
\* pixel holds the color and the depth of the write at d1, whichever of the
\* two was made first; so where a triangle at depth 0.2 and one at depth 0.8
\* overlap, the pixel shows the color of the one at 0.2
C1_NearestWins ==
    \A j1 \in DOMAIN log, j2 \in DOMAIN log :
        (/\ j1 # j2
         /\ PixelOf(log[j1]) = PixelOf(log[j2])
         /\ RLt(log[j1].depth, log[j2].depth)
         /\ WritesTo(PixelOf(log[j1])) = {j1, j2})
        => /\ framebuffer.buffer[PixelOf(log[j1])] = log[j1].color
           /\ framebuffer.zbuffer[PixelOf(log[j1])] = log[j1].depth

\* the far triangle was submitted first and the near one, of another color,
\* overwrote it
C1_FarThenNear ==
    /\ pc = "done"
    /\ \E j1 \in DOMAIN log, j2 \in DOMAIN log :
        /\ j2 < j1
        /\ PixelOf(log[j1]) = PixelOf(log[j2])
        /\ log[j1].depth = Near
        /\ log[j2].depth = Far
        /\ log[j1].color # log[j2].color
        /\ WritesTo(PixelOf(log[j1])) = {j1, j2}
        /\ framebuffer.buffer[PixelOf(log[j1])] = log[j1].color

\* C2: a second point call with the same (x, y, depth) and color leaves the
\* framebuffer as the first call left it
C2_DepthTestIdempotent ==
    (Len(log) >= 2 /\ log[Len(log)] = log[Len(log) - 1])
        => Cells(framebuffer) = before

\* a write that passed the depth test over an earlier, farther write was
\* repeated
C2_RepeatedWrite ==
    /\ Len(log) >= 3
    /\ log[Len(log)] = log[Len(log) - 1]
    /\ PixelOf(log[1]) = PixelOf(log[Len(log)])
    /\ RLt(log[Len(log)].depth, log[1].depth)
    /\ framebuffer.zbuffer[PixelOf(log[Len(log)])] = log[Len(log)].depth
    /\ framebuffer.buffer[PixelOf(log[Len(log)])] = log[Len(log)].color

\* all three corners beyond the same edge of the framebuffer
FullyOutside(tri, fb) ==
    \/ \A k \in 1 .. 3 : RGe(tri[k].transformed_position[1], Num(fb.width))
    \/ \A k \in 1 .. 3 : RGe(tri[k].transformed_position[2], Num(fb.height))
    \/ \A k \in 1 .. 3 : RLt(tri[k].transformed_position[1], Num(0))
    \/ \A k \in 1 .. 3 : RLt(tri[k].transformed_position[2], Num(0))

InsideTriangles ==
    SelectSeq(triangles, LAMBDA tri : ~FullyOutside(tri, framebuffer))

\* C3: a triangle whose corners all lie beyond one edge of the framebuffer,
\* the top and left edges (negative coordinates) included, causes no point
\* call: a draw of such triangles alone leaves the framebuffer as it was, and
\* any draw ends as the draw of its other triangles does
C3_OutsideUntouched ==
    /\ (/\ pc \in {"composite", "write", "done"}
        /\ \A k \in DOMAIN triangles : FullyOutside(triangles[k], framebuffer))
       => /\ pc # "write"
          /\ trace.points = 0
          /\ Cells(framebuffer) = Cells(trace.start)
    /\ pc = "done"
       => Cells(framebuffer) =
              Cells(RenderFragments(trace.start, uniforms, shader_type,
                                    RasterizeAll(InsideTriangles)))

\* a triangle right of the framebuffer, whose fragments the bounds check
\* rejected, and one at negative coordinates were drawn
C3_OutsideDrawn ==
    /\ pc = "done"
    /\ Len(triangles) = 2
    /\ \A k \in DOMAIN triangles : FullyOutside(triangles[k], framebuffer)
    /\ \E k \in DOMAIN triangles :
           \A c \in 1 .. 3 : RLt(triangles[k][c].transformed_position[1], Num(0))
    /\ fragments # <<>>
    /\ trace.points = 0

----------------------------------------------------------------------------
(* Properties of the order of the writes                                   *)

\* the writes, as set_current_color and point pairs, made one after another
RECURSIVE Replay(_, _)
Replay(fb, writes) ==
    IF writes = <<>> THEN fb
    ELSE Replay(CompositeWrite(fb, writes[1].x, writes[1].y, writes[1].depth,
                               writes[1].color),
                Tail(writes))

Orders(n) ==
    {p \in [1 .. n -> 1 .. n] : \A a, b \in 1 .. n : p[a] = p[b] => a = b}

Permuted(writes, p) == [k \in 1 .. Len(writes) |-> writes[p[k]]]

\* the writes to pixel k that no other write to k is nearer than
Nearest(k) ==
    {j \in WritesTo(k) : \A j2 \in WritesTo(k) : RLe(log[j].depth, log[j2].depth)}

TieFree(k) == \A a, b \in Nearest(k) : log[a].color = log[b].color

\* the writes since the last clear, in every order, give the same color and
\* depth at every pixel (the statement as the specification makes it)
C4_AnyOrderSameCells ==
    \A p \in Orders(Len(log)) :
        Cells(Replay(clear(framebuffer), Permuted(log, p))) = Cells(framebuffer)

\* C4: the writes since the last clear, made in any order, give the same
\* depth at every pixel, and the same color at every pixel whose nearest
\* writes all carry one color; among writes of equal least depth the first
\* one made keeps the pixel
C4_AnyOrderSameUpToTies ==
    /\ \A p \in Orders(Len(log)) :
        LET other == Replay(clear(framebuffer), Permuted(log, p))
        IN  /\ other.zbuffer = framebuffer.zbuffer
            /\ \A k \in DOMAIN framebuffer.buffer :
                   TieFree(k) => other.buffer[k] = framebuffer.buffer[k]
    /\ \A k \in DOMAIN framebuffer.buffer :
           \A j \in Nearest(k) :
               (\A j2 \in Nearest(k) : j <= j2)
                   => framebuffer.buffer[k] = log[j].color

\* two writes of different colors and depths went to one pixel, the farther
\* first, and a third write was made
C4_OrderMatters ==
    /\ Len(log) >= 3
    /\ \E j1 \in DOMAIN log, j2 \in DOMAIN log :
        /\ j1 < j2
        /\ PixelOf(log[j1]) = PixelOf(log[j2])
        /\ RLt(log[j2].depth, log[j1].depth)
        /\ log[j1].color # log[j2].color

----------------------------------------------------------------------------
(* Properties of one draw call                                             *)

\* the pixels whose centers lie in the triangle (10,10), (20,10), (10,20)
InRegion(x, y) == x >= 10 /\ y >= 10 /\ x + y < 30

\* the right triangle, drawn alone into a cleared 32 x 32 framebuffer, leaves
\* exactly the pixels of its region with a color other than the background
\* color and depth 0.5 (the statement as the specification makes it)
C5_RegionNotBackground ==
    (pc = "done" /\ vertex_array = RightTriangle)
        => \A x \in 0 .. 31, y \in 0 .. 31 :
               LET k == Index(framebuffer, x, y)
               IN  IF InRegion(x, y)
                   THEN /\ framebuffer.buffer[k] # framebuffer.background_color
                        /\ framebuffer.zbuffer[k] = Mid
                   ELSE /\ framebuffer.buffer[k] = framebuffer.background_color
                        /\ framebuffer.zbuffer[k] = Inf

\* C5: the right triangle, drawn alone into a cleared 32 x 32 framebuffer,
\* leaves exactly the pixels of its region with depth 0.5 and the color the
\* shader gave their fragment, which may be the background color; every
\* other pixel keeps the background color and the cleared depth
C5_RegionShaded ==
    (pc = "done" /\ vertex_array = RightTriangle)
        => \A x \in 0 .. 31, y \in 0 .. 31 :
               LET k == Index(framebuffer, x, y)
               IN  IF InRegion(x, y)
                   THEN /\ framebuffer.zbuffer[k] = Mid
                        /\ \E j \in DOMAIN fragments :
                               /\ FragX(fragments[j]) = x
                               /\ FragY(fragments[j]) = y
                               /\ framebuffer.buffer[k] =
                                      to_hex(apply_shader(fragments[j], uniforms,
                                                          shader_type))
                   ELSE /\ framebuffer.buffer[k] = framebuffer.background_color
                        /\ framebuffer.zbuffer[k] = Inf

\* the right triangle was drawn, and a covered pixel was shaded to the
\* background color
C5_RegionDrawn ==
    /\ pc = "done"
    /\ vertex_array = RightTriangle
    /\ trace.points = 55
    /\ \E j \in DOMAIN log : log[j].color = framebuffer.background_color

NumInBounds ==
    Cardinality({j \in DOMAIN fragments :
                    InBounds(framebuffer, FragX(fragments[j]), FragY(fragments[j]))})

TransformFinished == Len(transformed_vertices) = Len(vertex_array) /\ pc # "transform"

AssemblyFinished == TransformFinished /\ pc # "assemble"

RasterFinished == AssemblyFinished /\ pc # "rasterize"

\* the stages run one after another and every fragment is shaded before any
\* fragment is written (the statement as the specification makes it)
C6_ShadedBeforeAnyWrite ==
    /\ triangles # <<>> => TransformFinished
    /\ fragments # <<>> => AssemblyFinished
    /\ trace.shaded > 0 => RasterFinished
    /\ trace.points > 0 => trace.shaded = NumInBounds

\* C6: every vertex is transformed before any triangle is assembled, every
\* triangle is assembled before any fragment is produced and every fragment
\* is produced before any fragment is shaded; then each fragment inside the
\* bounds is shaded and written at once, before the next one is shaded
C6_StagesThenInterleaved ==
    /\ triangles # <<>> => TransformFinished
    /\ fragments # <<>> => AssemblyFinished
    /\ trace.shaded > 0 => RasterFinished
    /\ trace.shaded = trace.points + (IF pc = "write" THEN 1 ELSE 0)
    /\ pc = "done" => trace.points = NumInBounds

\* a fragment is about to be written, after earlier ones were written and
\* while later ones are not shaded yet
C6_ShadeBetweenWrites ==
    /\ pc = "write"
    /\ trace.points >= 1
    /\ trace.shaded < NumInBounds

\* C7: a list of n vertices gives n \div 3 triangles, the k-th (from 0) made
\* of the transformed vertices 3k, 3k+1, 3k+2 in that order; the n % 3
\* vertices at the end belong to no triangle, and n < 3 gives no triangle and
\* no write
C7_AssemblyByThrees ==
    AssemblyFinished
        => /\ Len(triangles) = Len(vertex_array) \div 3
           /\ \A k \in 0 .. Len(triangles) - 1 :
                  triangles[k + 1] = <<transformed_vertices[3 * k + 1],
                                       transformed_vertices[3 * k + 2],
                                       transformed_vertices[3 * k + 3]>>
           /\ Len(vertex_array) < 3
                  => /\ triangles = <<>>
                     /\ trace.points = 0
                     /\ Cells(framebuffer) = Cells(trace.start)

\* a list of two triangles and two more vertices was drawn
C7_TrailingIgnored ==
    /\ pc = "done"
    /\ Len(vertex_array) % 3 = 2
    /\ Len(triangles) = 2
    /\ trace.points > 0

----------------------------------------------------------------------------
(* Properties of the vertex and fragment shaders                           *)

\* a vertex whose clip-space w is zero is not divided by w (the statement
\* as the specification makes it)
C8_ZeroWSkipped ==
    \A k \in DOMAIN trace.clip :
        trace.clip[k][4] = Num(0) => trace.zero_w_divisions = 0

\* the color a variant has computed before its last statement
SurfaceColor(fragment, u, st) ==
    CASE st = "Mercury"        -> mercury_color(fragment, u)
      [] st = "CrackedEarth"   -> cracked_earth_color(fragment, u)
      [] st = "BlackAndWhite"  -> black_and_white_color(fragment, u)
      [] st = "Dalmata"        -> dalmata_color(fragment, u)
      [] st = "Cloud"          -> cloud_color(fragment, u)
      [] st = "Cellular"       -> cellular_color(fragment, u)
      [] st = "Lava"           -> lava_color(fragment, u)
      [] st = "water_shader"   -> water_color(fragment, u)
      [] st = "crystal_shader" -> crystal_color(fragment, u)
      [] st = "arid_shader"    -> arid_color(fragment, u)

Black == Color_new(0, 0, 0)

\* the variants whose last statement is color * fragment.intensity
Multiplying ==
    {"CrackedEarth", "BlackAndWhite", "Dalmata", "Cloud", "Cellular", "Lava",
     "crystal_shader"}

\* the variants whose last statement blends toward a highlight color
Blending == {"Mercury", "arid_shader"}

NoBrighter(c, d) == \A ch \in 1 .. 3 : c[ch] <= d[ch]

C10_ViewportMapping ==
    \A k \in DOMAIN transformed_vertices :
        LET ndc    == trace.ndc[k]
            screen == transformed_vertices[k].transformed_position
            w      == Num(framebuffer.width)
            h      == Num(framebuffer.height)
        IN  (\A c \in 1 .. 3 : IsFinite(ndc[c]))
                => /\ screen[1] = RDiv(RMul(RAdd(ndc[1], Num(1)), w), Num(2))
                   /\ screen[2] = RDiv(RMul(RSub(Num(1), ndc[2]), h), Num(2))
                   /\ screen[3] = ndc[3]
                   /\ (ndc[1] = Num(0) /\ ndc[2] = Num(0))
                          => screen = <<RDiv(w, Num(2)), RDiv(h, Num(2)), ndc[3]>>
                   /\ (ndc[1] = Num(-1) /\ ndc[2] = Num(1))
                          => screen = <<Num(0), Num(0), ndc[3]>>
                   /\ (ndc[1] = Num(1) /\ ndc[2] = Num(-1))
                          => screen = <<w, h, ndc[3]>>

\* the two corners and the center were transformed, at a depth that is
\* neither 0 nor 1
C10_CornersAndCenter ==
    /\ Len(transformed_vertices) >= 3
    /\ trace.ndc[1] = <<Num(-1), Num(1), Mid, Num(1)>>
    /\ trace.ndc[2] = <<Num(0), Num(0), Mid, Num(1)>>
    /\ trace.ndc[3] = <<Num(1), Num(-1), Mid, Num(1)>>
    /\ transformed_vertices[3].transformed_position
           = <<Num(framebuffer.width), Num(framebuffer.height), Mid>>

----------------------------------------------------------------------------
(* Properties of the rasterizer                                            *)

Corner(tri, k) == tri[k].transformed_position

FiniteCorners(tri) == \A k \in 1 .. 3, c \in 1 .. 3 : IsFinite(Corner(tri, k)[c])

PositiveArea(tri) ==
    /\ FiniteCorners(tri)
    /\ EdgeFunction(Corner(tri, 1), Corner(tri, 2), Corner(tri, 3)) # Num(0)

\* the barycentric weights of the center of pixel px in the triangle
WeightsIn(tri, px) ==
    Barycentric(PixelCenter(px[1], px[2]), Corner(tri, 1), Corner(tri, 2), Corner(tri, 3))

DepthsOf(tri) == {Corner(tri, k)[3] : k \in 1 .. 3}

\* fragment j lies on a pixel center of the triangle and carries the depth
\* interpolated there
Owns(tri, j) ==
    LET w == WeightsIn(tri, <<FragX(fragments[j]), FragY(fragments[j])>>)
    IN  /\ Covered(w)
        /\ fragments[j].depth = Blend1(w, Corner(tri, 1)[3], Corner(tri, 2)[3],
                                       Corner(tri, 3)[3])

\* the pixels with no negative coordinate whose centers lie in the triangle
CentersIn(tri) ==
    LET xs == {Corner(tri, k)[1] : k \in 1 .. 3}
        ys == {Corner(tri, k)[2] : k \in 1 .. 3}
        max_x == CHOOSE m \in xs : \A v \in xs : RLe(v, m)
        max_y == CHOOSE m \in ys : \A v \in ys : RLe(v, m)
    IN  {px \in (0 .. RFloor(max_x)) \X (0 .. RFloor(max_y)) : Covered(WeightsIn(tri, px))}

\* the weights are in [0, 1] and sum to 1, and the depth is between the
\* least and the greatest depth of the corners
WeightsProper(j) ==
    \E k \in DOMAIN triangles :
        LET tri == triangles[k]
            w   == WeightsIn(tri, <<FragX(fragments[j]), FragY(fragments[j])>>)
        IN  /\ PositiveArea(tri)
            /\ Owns(tri, j)
            /\ \A c \in 1 .. 3 : RGe(w[c], Num(0)) /\ RLe(w[c], Num(1))
            /\ RAdd(RAdd(w[1], w[2]), w[3]) = Num(1)
            /\ \E lo \in DepthsOf(tri), hi \in DepthsOf(tri) :
                   RLe(lo, fragments[j].depth) /\ RLe(fragments[j].depth, hi)

\* the rasterizer has just finished
JustRasterized == pc = "composite" /\ i = 0

\* every triangle of positive area gives at least one fragment, and every
\* fragment has proper weights (the statement as the specification makes it)
C11_PositiveAreaEmits ==
    JustRasterized
        => /\ \A k \in DOMAIN triangles :
                  PositiveArea(triangles[k])
                      => \E j \in DOMAIN fragments : Owns(triangles[k], j)
           /\ \A j \in DOMAIN fragments : WeightsProper(j)

\* C11: every pixel center with no negative coordinate that lies in a
\* triangle of positive area gets a fragment of it, so a triangle that holds
\* such a center gives at least one fragment, while one that holds none
\* gives none; every fragment has weights in [0, 1] that sum to 1 and a
\* depth between the least and the greatest depth of the corners
C11_CoveredCentersEmit ==
    JustRasterized
        => /\ \A k \in DOMAIN triangles :
                  PositiveArea(triangles[k])
                      => \A px \in CentersIn(triangles[k]) :
                             \E j \in DOMAIN fragments :
                                 /\ <<FragX(fragments[j]), FragY(fragments[j])>> = px
                                 /\ Owns(triangles[k], j)
           /\ \A j \in DOMAIN fragments : WeightsProper(j)

\* a triangle whose corners differ in depth was rasterized into fragments
\* with a depth strictly between two corner depths, next to a triangle of
\* positive area that holds no pixel center
C11_SlantRasterized ==
    /\ JustRasterized
    /\ \E j \in DOMAIN fragments :
           RLt(Near, fragments[j].depth) /\ RLt(fragments[j].depth, Far)
    /\ \E k \in DOMAIN triangles :
           PositiveArea(triangles[k]) /\ CentersIn(triangles[k]) = {}

\* three collinear or coincident corners
ZeroArea(tri) ==
    /\ FiniteCorners(tri)
    /\ EdgeFunction(Corner(tri, 1), Corner(tri, 2), Corner(tri, 3)) = Num(0)

WithArea == SelectSeq(triangles, LAMBDA tri : ~ZeroArea(tri))

\* C12: a triangle of three collinear or coincident corners gives no
\* fragment: it is not shaded and not written, a draw of such triangles alone
\* leaves the framebuffer as it was, and the other triangles of the list are
\* rasterized and drawn as they are without it
C12_ZeroAreaEmpty ==
    /\ (RasterFinished /\ \A k \in DOMAIN triangles : ZeroArea(triangles[k]))
           => /\ fragments = <<>>
              /\ trace.shaded = 0
              /\ trace.points = 0
              /\ Cells(framebuffer) = Cells(trace.start)
    /\ JustRasterized => fragments = RasterizeAll(WithArea)
    /\ pc = "done"
           => Cells(framebuffer) =
                  Cells(RenderFragments(trace.start, uniforms, shader_type,
                                        RasterizeAll(WithArea)))

\* a list of a collinear triangle and a triangle with area was drawn
C12_CollinearThenDrawn ==
    /\ pc = "done"
    /\ Len(triangles) = 2
    /\ ZeroArea(triangles[1])
    /\ Corner(triangles[1], 1) # Corner(triangles[1], 2)
    /\ ~ZeroArea(triangles[2])
    /\ trace.points > 0

----------------------------------------------------------------------------
(* Properties of the clear at the start of a frame                         *)

\* every cell holds the background color and the maximum depth
AllBackground(fb) ==
    \A k \in DOMAIN fb.buffer :
        fb.buffer[k] = fb.background_color /\ fb.zbuffer[k] = Inf

\* a point call with this depth and color would be stored at (x, y)
Accepted(fb, x, y, depth, color) ==
    LET after == CompositeWrite(fb, x, y, depth, color)
    IN  /\ after.buffer[Index(fb, x, y)] = color
        /\ after.zbuffer[Index(fb, x, y)] = depth

\* the finite depths tried: small, large, negative, and beyond 1
ProbeDepths == {Near, Far, Num(1), Num(-3), Num(1000000)}

JustCleared == pc = "stars"

StarsJustDrawn == pc = "orbits" /\ driver.index = 1

\* C13: right after the clear of a frame, whatever was drawn before, every
\* pixel holds the background color and every depth cell the maximum depth,
\* so a point call at any pixel inside the bounds with any finite depth is
\* stored, as the first star is; nothing of the frame before is left.
C13_ClearResets ==
    /\ JustCleared =>
           /\ AllBackground(framebuffer)
           /\ \A x \in 0 .. framebuffer.width - 1, y \in 0 .. framebuffer.height - 1,
                 d \in ProbeDepths :
                  Accepted(framebuffer, x, y, d, 16777215)
    /\ StarsJustDrawn =>
           \A n \in DOMAIN driver.stars :
               LET k == Index(framebuffer, driver.stars[n][1], driver.stars[n][2])
               IN  framebuffer.buffer[k] = 16777215 /\ framebuffer.zbuffer[k] = Num(1)

\* the second frame is cleared after the first one showed stars and planets
C13_ClearedAfterDrawing ==
    /\ JustCleared
    /\ driver.frames = 1
    /\ \E k \in DOMAIN driver.shown.buffer :
           driver.shown.buffer[k] \notin {0, 16777215, 13421772}

----------------------------------------------------------------------------
(* Properties of the order of a frame                                      *)

\* the framebuffer operations of a whole frame, in order: the clear, the
\* stars, an orbit line for every planet, every body drawn or left out, and
\* the presentation
FrameLength == 2 + (Len(spheres) - 1) + Len(spheres) + 1

EventAllowedAt(n) ==
    IF n = 1 THEN {"clear"}
    ELSE IF n = 2 THEN {"stars"}
    ELSE IF n <= 2 + (Len(spheres) - 1) THEN {"orbit"}
    ELSE IF n < FrameLength THEN {"planet", "skip"}
    ELSE IF n = FrameLength THEN {"present"}
    ELSE {}

InOrder(events) == \A n \in DOMAIN events : events[n] \in EventAllowedAt(n)

BetweenFrames == pc \in {"loop", "exited"}

\* C14: the operations of every iteration come in the order clear, stars,
\* orbit lines, planets, present; the framebuffer is as it was presented until
\* the clear of the frame; the buffer is presented once per iteration, after
\* every body was drawn or left out; the time grows by 1 per iteration; and an
\* exit by Escape leaves the framebuffer as it was presented, with nothing
\* more presented.
C14_FrameOrder ==
    /\ InOrder(driver.events)
    /\ pc \in {"loop", "camera", "exited"} => Cells(framebuffer) = driver.shown
    /\ pc = "camera" => driver.events = <<>>
    /\ ~BetweenFrames =>
           /\ driver.time = driver.entry.time + 1
           /\ driver.frames = driver.time - 1
           /\ "present" \notin {driver.events[n] : n \in DOMAIN driver.events}
    /\ BetweenFrames =>
           /\ driver.frames = driver.time
           /\ driver.frames > 0 =>
                  /\ Len(driver.events) = FrameLength
                  /\ driver.time = driver.entry.time + 1
    /\ pc = "exited" => ~driver.is_open \/ "Escape" \in driver.keys

\* Escape is pressed after two frames, the second with a planet drawn
C14_EscapeAfterFrames ==
    /\ pc = "exited"
    /\ "Escape" \in driver.keys
    /\ driver.is_open
    /\ driver.frames >= 2
    /\ \E n \in DOMAIN driver.events : driver.events[n] = "planet"
    /\ \E n \in DOMAIN driver.events : driver.events[n] = "skip"

----------------------------------------------------------------------------
(* Properties of the colors stored in a frame                              *)

\* the first of the writes to pixel k that no other write to k is nearer
\* than, among the writes from j on and the write best; 0 stands for none
RECURSIVE WinnerFrom(_, _, _)
WinnerFrom(k, j, best) ==
    IF j > Len(log) THEN best
    ELSE WinnerFrom(k, j + 1,
                    IF /\ PixelOf(log[j]) = k
                       /\ (best = 0 \/ RLt(log[j].depth, log[best].depth))
                    THEN j ELSE best)

Winner(k) == WinnerFrom(k, 1, 0)

WinningColor(j) == IF j = 0 THEN framebuffer.background_color ELSE log[j].color

StarColor == 16777215

OrbitColor == 13421772

PlaceholderColor == 16768477

\* C15: every color in the framebuffer is the color that was set for the
\* write that stored it: a pixel written since the clear holds the color
\* of the first of its nearest writes (the shaded color of that fragment, or
\* the constant of the stars or of the orbit lines), any other pixel the
\* background; the color of the last write stays current until the next one
\* is set, and the color 0xFFDDDD set before render_with_shader is in no
\* pixel.
C15_OwnColorStored ==
    /\ \A k \in DOMAIN framebuffer.buffer :
           /\ framebuffer.buffer[k] = WinningColor(Winner(k))
           /\ framebuffer.buffer[k] # PlaceholderColor
    /\ (pc = "composite" /\ i > 0) =>
           /\ log[Len(log)].color = to_hex(shaded_color)
           /\ framebuffer.current_color = to_hex(shaded_color)
    /\ StarsJustDrawn =>
           \A j \in DOMAIN log : log[j].color = StarColor

\* a planet is drawn over a star and over an orbit line
C15_PlanetOverStarAndOrbit ==
    /\ pc = "done"
    /\ \E k \in DOMAIN framebuffer.buffer :
           /\ \E j \in WritesTo(k) : log[j].color = StarColor
           /\ framebuffer.buffer[k] \notin {StarColor, OrbitColor, 0}
    /\ \E k \in DOMAIN framebuffer.buffer :
           /\ \E j \in WritesTo(k) : log[j].color = OrbitColor
           /\ framebuffer.buffer[k] \notin {StarColor, OrbitColor, 0}

----------------------------------------------------------------------------
(* Properties of the followed planet                                       *)

NumberKeys == <<"Key1", "Key2", "Key3", "Key4", "Key5">>

\* the planets whose number key is down
Pressed(keys) == {n \in DOMAIN NumberKeys : NumberKeys[n] \in keys}

\* the least of a set of numbers
Least(s) == CHOOSE n \in s : \A m \in s : n <= m

FollowStepDone == pc = "camera"

\* C16: current_planet is always one of 1..5 and an index into
\* planet_positions, never that of the central body; in a frame it is the
\* least planet whose number key is down, or the one of the frame before when
\* none is; and after the follow step the center of the camera is the
\* position of that planet, the eye as far from it as before.
C16_FollowedPlanet ==
    /\ driver.current_planet \in 1 .. 5
    /\ driver.current_planet + 1 \in DOMAIN driver.planet_positions
    /\ Len(driver.planet_positions) = Len(spheres)
    /\ (pc # "exited" /\ driver.time > 0) =>
           driver.current_planet =
               IF Pressed(driver.keys) = {} THEN driver.entry.current_planet
               ELSE Least(Pressed(driver.keys))
    /\ FollowStepDone =>
           /\ driver.camera.center = PlanetPosition(driver.time, driver.current_planet)
           /\ driver.camera.center = driver.planet_positions[driver.current_planet + 1]
           /\ Sub3(driver.camera.eye, driver.camera.center) = driver.entry.offset

\* Key2 and Key3 are down while planet 5 is followed, after a frame that
\* moved the eye
C16_TwoKeysDown ==
    /\ FollowStepDone
    /\ {"Key2", "Key3"} \subseteq driver.keys
    /\ driver.entry.current_planet = 5
    /\ driver.current_planet = 2
    /\ driver.camera.center # IVec3(5, 0, 0)

====
